---- MODULE Spec2Model ----
(***************************************************************************)
(* Books API (booksapi/db.py, booksapi/main.py): the process-wide          *)
(* connection pool and its lifecycle (init_pool, close_pool,               *)
(* get_connection), the two search handlers (_search_author,               *)
(* _search_books) and the LIKE-pattern helper (_make_like_pattern).        *)
(*                                                                         *)
(* Strings are sequences of one-character strings.  Each request is an     *)
(* asyncio task; a step of the model is the code between two suspension    *)
(* points (await) of one task.                                             *)
(***************************************************************************)
EXTENDS Integers, Sequences, FiniteSets, TLC

VARIABLES
    env,        \* the process environment: setting name -> value
    appState,   \* the application: "starting", "serving", "failed", "stopped"
    pool,       \* db.pool: None or the identity of the current pool object
    pools,      \* every AsyncConnectionPool object constructed so far
    closer,     \* the close_pool() calls in progress
    req,        \* the search requests (_search_author / _search_books calls)
    initTick,   \* flips at every init_pool() call
    initResult, \* how the last init_pool() call ended
    envRead,    \* whether the last init_pool() call read the environment
    value,      \* _make_like_pattern: the argument under test
    mainOut,    \* main._make_like_pattern(value), once applied
    dbOut       \* db._make_like_pattern(value), once applied

vars == <<env, appState, pool, pools, closer, req, initTick, initResult,
          envRead, value, mainOut, dbOut>>

lifecycleVars == <<env, appState, pool, pools, closer, initTick, initResult, envRead>>
patternVars   == <<value, mainOut, dbOut>>

----------------------------------------------------------------------------
(* Bounds of the model *)

\* Pool capacity.  init_pool passes max_size=10; the model scales it down and
\* always runs one request more than the capacity.
max_size == 2
\* Pool objects that may be constructed in one behaviour.
MaxPools == 2
\* Concurrent callers of close_pool().
NumClosers == 2
\* Longest search term fed to _make_like_pattern.
MaxLen == 3

NumRequests == max_size + 1
Requests    == 1..NumRequests
Closers     == 1..NumClosers
Conns       == 1..max_size

----------------------------------------------------------------------------
(* Values *)

\* db.pool = None
None == 0
\* A connection slot that holds nothing.
NoConn == 0

\* os.getenv(...) returning None
Unset == "<unset>"

EnvNames == {"DB_NAME", "DB_USER", "DB_PASSWORD", "DB_HOST", "DB_PORT"}
EnvValuesOf(n) == IF n = "DB_PASSWORD" THEN {Unset, "", "p@ss"} ELSE {Unset, "", "v"}

\* Python truthiness of an Optional[str]
Truthy(v) == v # Unset /\ v # ""

\* Optional[str] for publish_by_date
NoDate     == [isNone |-> TRUE,  str |-> <<>>]
SomeDate(s) == [isNone |-> FALSE, str |-> s]

----------------------------------------------------------------------------
(* _make_like_pattern, both copies *)

Alphabet   == {"a", "%", " ", "\t"}
\* The characters str.strip() removes.
Whitespace == {" ", "\t"}

Strings(n) == UNION {[1..k -> Alphabet] : k \in 0..n}

RECURSIVE lstrip(_)
lstrip(s) == IF s # <<>> /\ Head(s) \in Whitespace THEN lstrip(Tail(s)) ELSE s

RECURSIVE rstrip(_)
rstrip(s) ==
    IF s # <<>> /\ s[Len(s)] \in Whitespace THEN rstrip(SubSeq(s, 1, Len(s) - 1)) ELSE s

\* str.strip()
strip(s) == rstrip(lstrip(s))

\* f"%{value}%"
Wrap(s) == <<"%">> \o s \o <<"%">>

\* the result slot of a function that has not been applied yet
NotApplied == <<"<not applied>">>

\* A copy that forgets the trailing side of strip().
main_make_like_pattern_lstrip(v) ==
    LET s == lstrip(v) IN IF s = <<>> THEN s ELSE Wrap(s)

\* main._make_like_pattern
main_make_like_pattern(v) ==
    LET s == strip(v) IN IF s = <<>> THEN s ELSE Wrap(s)

\* db._make_like_pattern
db_make_like_pattern(v) ==
    LET s == strip(v) IN IF s = <<>> THEN s ELSE Wrap(s)

----------------------------------------------------------------------------
(* Configuration *)

\* urllib.parse.quote_plus on the values the environment can hold
quote_plus(s) == IF s = "p@ss" THEN "p%40ss" ELSE s

\* A test that looks at DB_NAME alone.
ConfigMissing_name_only(e) == ~Truthy(e["DB_NAME"])

\* not all([db_name, db_user, db_password])
ConfigMissing(e) ==
    ~(Truthy(e["DB_NAME"]) /\ Truthy(e["DB_USER"]) /\ Truthy(e["DB_PASSWORD"]))

NoDsn == [user |-> "", password |-> "", host |-> "", port |-> "", name |-> ""]

\* _build_dsn_from_env: raises RuntimeError, or returns the DSN (kept by parts)
build_dsn_from_env(e) ==
    IF ConfigMissing(e)
    THEN [raised |-> TRUE, dsn |-> NoDsn]
    ELSE [raised |-> FALSE,
          dsn |-> [user     |-> quote_plus(e["DB_USER"]),
                   password |-> quote_plus(e["DB_PASSWORD"]),
                   host     |-> IF Truthy(e["DB_HOST"]) THEN e["DB_HOST"] ELSE "localhost",
                   port     |-> IF Truthy(e["DB_PORT"]) THEN e["DB_PORT"] ELSE "5432",
                   name     |-> e["DB_NAME"]]]

\* AsyncConnectionPool(conninfo=dsn, min_size=1, max_size=10, ...)
NewPool(dsn) == [dsn |-> dsn, closed |-> FALSE, closeCalls |-> 0]

----------------------------------------------------------------------------
(* Pool lifecycle *)

\* init_pool without the "already initialized" test.
init_pool_unguarded ==
    LET b == build_dsn_from_env(env) IN
    /\ (~b.raised) => Len(pools) < MaxPools
    /\ initTick' = ~initTick
    /\ envRead' = TRUE
    /\ IF b.raised
       THEN initResult' = "ConfigError" /\ UNCHANGED <<pool, pools>>
       ELSE /\ initResult' = "created"
            /\ pools' = Append(pools, NewPool(b.dsn))
            /\ pool' = Len(pools) + 1

\* db.init_pool(): no await inside, so one atomic step
init_pool ==
    LET b == build_dsn_from_env(env) IN
    /\ (pool = None /\ ~b.raised) => Len(pools) < MaxPools
    /\ initTick' = ~initTick
    /\ IF pool # None
       THEN initResult' = "noop" /\ envRead' = FALSE /\ UNCHANGED <<pool, pools>>
       ELSE /\ envRead' = TRUE
            /\ IF b.raised
               THEN initResult' = "ConfigError" /\ UNCHANGED <<pool, pools>>
               ELSE /\ initResult' = "created"
                    /\ pools' = Append(pools, NewPool(b.dsn))
                    /\ pool' = Len(pools) + 1

\* main.on_startup: the application serves only if the hook returns
on_startup ==
    /\ appState = "starting"
    /\ init_pool
    /\ appState' = IF initResult' = "ConfigError" THEN "failed" ELSE "serving"
    /\ UNCHANGED <<env, closer, req, patternVars>>

\* a direct call of db.init_pool()
InitPoolCall ==
    /\ init_pool
    /\ UNCHANGED <<env, appState, closer, req, patternVars>>

\* db.close_pool() up to its await: the test of the global and the call of
\* pool.close(), which marks the pool object closed
close_pool_begin(c) ==
    /\ closer[c].pc = "idle"
    /\ IF pool = None
       THEN /\ closer' = [closer EXCEPT ![c].last = "noop"]
            /\ UNCHANGED <<pool, pools>>
       ELSE /\ pools' = [pools EXCEPT ![pool].closed = TRUE,
                                      ![pool].closeCalls = @ + 1]
            /\ closer' = [closer EXCEPT ![c] = [pc |-> "closing", target |-> pool,
                                                last |-> closer[c].last]]
            /\ UNCHANGED pool

\* close_pool that forgets to clear the global.
close_pool_end_keep(c) ==
    /\ closer[c].pc = "closing"
    /\ closer' = [closer EXCEPT ![c] = [pc |-> "idle", target |-> None, last |-> "closed"]]
    /\ UNCHANGED pool

\* db.close_pool() after the await: pool = None
close_pool_end(c) ==
    /\ closer[c].pc = "closing"
    /\ pool' = None
    /\ closer' = [closer EXCEPT ![c] = [pc |-> "idle", target |-> None, last |-> "closed"]]

\* main.on_shutdown: the application stops serving and closes the pool
on_shutdown(c) ==
    /\ appState = "serving"
    /\ appState' = "stopped"
    /\ close_pool_begin(c)
    /\ UNCHANGED <<env, req, initTick, initResult, envRead, patternVars>>

\* a direct call of db.close_pool()
ClosePoolCall(c) ==
    /\ close_pool_begin(c)
    /\ UNCHANGED <<env, appState, req, initTick, initResult, envRead, patternVars>>

\* the awaited pool.close() returns
ClosePoolReturn(c) ==
    /\ close_pool_end(c)
    /\ UNCHANGED <<env, appState, pools, req, initTick, initResult, envRead, patternVars>>

----------------------------------------------------------------------------
(* The search handlers *)

Functions == {"search_author", "search_books"}

\* the query text of lines 51-56 / 86-91: chosen by the handler and by
\* "publish_by_date is None" alone
Query(fn, d) ==
    IF fn = "search_author"
    THEN (IF d.isNone THEN "SELECT * FROM search_author(%s);"
                      ELSE "SELECT * FROM search_author(%s, %s);")
    ELSE (IF d.isNone THEN "SELECT * FROM search_books(%s);"
                      ELSE "SELECT * FROM search_books(%s, %s);")

\* Params that trims the date filter like the search term.
Params_stripped(pattern, d) == IF d.isNone THEN <<pattern>> ELSE <<pattern, strip(d.str)>>

\* the params tuple of lines 51-56 / 86-91
Params(pattern, d) == IF d.isNone THEN <<pattern>> ELSE <<pattern, d.str>>

\* the detail of the HTTPException raised by the except clause
Detail(fn) ==
    IF fn = "search_author"
    THEN "Error querying database using search_author"
    ELSE "Error querying database using search_books"

\* the text carried by an exception of the database layer
DbErrorText == "psycopg.OperationalError: server closed the connection"

IdleReq == [pc |-> "idle", fn |-> "", term |-> <<>>, date |-> NoDate,
            pattern |-> <<>>, target |-> None, conn |-> NoConn, calls |-> <<>>,
            acquired |-> 0, released |-> 0, result |-> "none", detail |-> ""]

\* A pool that hands out a connection without looking at who holds it.
Free_always(p, c) == TRUE

\* connection c of pool object p is checked out by nobody
Free(p, c) == \A q \in Requests : ~(req[q].target = p /\ req[q].conn = c)

CheckedOut(p) == {q \in Requests : req[q].target = p /\ req[q].conn # NoConn}

\* A handler whose get_connection() creates the pool when there is none.
SearchCall_lazy(r, fn, t, d) ==
    /\ req[r].pc = "idle"
    /\ \A q \in Requests : q < r => req[q].pc # "idle"
    /\ pool = None => Len(pools) < MaxPools
    /\ LET base == [IdleReq EXCEPT !.fn = fn, !.term = t, !.date = d,
                                   !.pattern = main_make_like_pattern(t)]
       IN  IF pool = None
           THEN /\ pools' = Append(pools, NewPool(NoDsn))
                /\ pool' = Len(pools) + 1
                /\ req' = [req EXCEPT ![r] = [base EXCEPT !.pc = "acquire",
                                                          !.target = Len(pools) + 1]]
           ELSE /\ req' = [req EXCEPT ![r] = [base EXCEPT !.pc = "acquire",
                                                          !.target = pool]]
                /\ UNCHANGED <<pool, pools>>
    /\ UNCHANGED <<env, appState, closer, initTick, initResult, envRead, patternVars>>

\* the handler up to its first suspension: the pattern, then
\* db.get_connection(), which raises when the global is None and otherwise
\* enters pool.connection() of the current pool object
SearchCall(r, fn, t, d) ==
    /\ req[r].pc = "idle"
    /\ \A q \in Requests : q < r => req[q].pc # "idle"
    /\ LET base == [IdleReq EXCEPT !.fn = fn, !.term = t, !.date = d,
                                   !.pattern = main_make_like_pattern(t)]
       IN  IF pool = None
           THEN req' = [req EXCEPT ![r] = [base EXCEPT !.pc = "done",
                                                       !.result = "RuntimeError"]]
           ELSE req' = [req EXCEPT ![r] = [base EXCEPT !.pc = "acquire",
                                                       !.target = pool]]
    /\ UNCHANGED <<lifecycleVars, patternVars>>

\* pool.connection() hands over a connection nobody holds; conn.cursor()
\* follows without a suspension: it is entered, or raises outside the try block
Grant(r, c) ==
    /\ req[r].pc = "acquire"
    /\ ~pools[req[r].target].closed
    /\ Free(req[r].target, c)
    /\ \/ req' = [req EXCEPT ![r].pc = "execute", ![r].conn = c, ![r].acquired = @ + 1]
       \/ req' = [req EXCEPT ![r].pc = "release", ![r].conn = c, ![r].acquired = @ + 1,
                             ![r].result = "CursorError"]
    /\ UNCHANGED <<lifecycleVars, patternVars>>

\* pool.connection() raises (PoolTimeout, PoolClosed): outside the try block
AcquireFail(r) ==
    /\ req[r].pc = "acquire"
    /\ req' = [req EXCEPT ![r].pc = "done", ![r].result = "PoolError", ![r].target = None]
    /\ UNCHANGED <<lifecycleVars, patternVars>>

\* An execute whose failure skips the release of the connection.
Execute_leak(r) ==
    /\ req[r].pc = "execute"
    /\ LET call == [query  |-> Query(req[r].fn, req[r].date),
                    params |-> Params(req[r].pattern, req[r].date)]
       IN  \/ req' = [req EXCEPT ![r].pc = "fetchall", ![r].calls = Append(@, call)]
           \/ req' = [req EXCEPT ![r].pc = "done", ![r].calls = Append(@, call),
                                 ![r].result = "HTTPException",
                                 ![r].detail = Detail(req[r].fn)]
    /\ UNCHANGED <<lifecycleVars, patternVars>>

\* await cur.execute(query, params): returns, or raises into the except clause
Execute(r) ==
    /\ req[r].pc = "execute"
    /\ LET call == [query  |-> Query(req[r].fn, req[r].date),
                    params |-> Params(req[r].pattern, req[r].date)]
       IN  \/ req' = [req EXCEPT ![r].pc = "fetchall", ![r].calls = Append(@, call)]
           \/ req' = [req EXCEPT ![r].pc = "release", ![r].calls = Append(@, call),
                                 ![r].result = "HTTPException",
                                 ![r].detail = Detail(req[r].fn)]
    /\ UNCHANGED <<lifecycleVars, patternVars>>

\* await cur.fetchall(): returns the rows, or raises into the except clause
Fetchall(r) ==
    /\ req[r].pc = "fetchall"
    /\ \/ req' = [req EXCEPT ![r].pc = "release", ![r].result = "rows"]
       \/ req' = [req EXCEPT ![r].pc = "release", ![r].result = "HTTPException",
                             ![r].detail = Detail(req[r].fn)]
    /\ UNCHANGED <<lifecycleVars, patternVars>>

\* leaving "async with pool.connection()": the connection goes back
Release(r) ==
    /\ req[r].pc = "release"
    /\ req' = [req EXCEPT ![r].pc = "done", ![r].conn = NoConn, ![r].target = None,
                          ![r].released = @ + 1]
    /\ UNCHANGED <<lifecycleVars, patternVars>>

----------------------------------------------------------------------------
(* The system *)

FullEnv == [n \in EnvNames |-> IF n = "DB_PASSWORD" THEN "p@ss" ELSE "v"]
Envs    == {e \in [EnvNames -> {Unset, "", "v", "p@ss"}] :
               \A n \in EnvNames : e[n] \in EnvValuesOf(n)}

Terms == {<<"a">>, <<" ">>, <<" ", "a", " ">>}
Dates == {NoDate, SomeDate(<<>>), SomeDate(<<" ", "a">>)}

InitWith(e) ==
    /\ env = e
    /\ appState = "starting"
    /\ pool = None
    /\ pools = <<>>
    /\ closer = [c \in Closers |-> [pc |-> "idle", target |-> None, last |-> "none"]]
    /\ req = [r \in Requests |-> IdleReq]
    /\ initTick = FALSE
    /\ initResult = "none"
    /\ envRead = FALSE
    /\ value = <<>>
    /\ mainOut = NotApplied
    /\ dbOut = NotApplied

RequestSteps(r) ==
    \/ \E c \in Conns : Grant(r, c)
    \/ AcquireFail(r)
    \/ Execute(r)
    \/ Fetchall(r)
    \/ Release(r)

(* One request under concurrent lifecycle calls *)

Init == InitWith(FullEnv)

Next ==
    \/ on_startup
    \/ InitPoolCall
    \/ \E c \in Closers : on_shutdown(c)
    \/ \E c \in Closers : ClosePoolCall(c)
    \/ \E c \in Closers : ClosePoolReturn(c)
    \/ \E fn \in Functions : SearchCall(1, fn, <<"a">>, NoDate)
    \/ RequestSteps(1)

Spec == Init /\ [][Next]_vars

(* One request with any input, between startup and shutdown *)

NextQuery ==
    \/ on_startup
    \/ on_shutdown(1)
    \/ ClosePoolReturn(1)
    \/ \E fn \in Functions, t \in Terms, d \in Dates : SearchCall(1, fn, t, d)
    \/ RequestSteps(1)

SpecQuery == Init /\ [][NextQuery]_vars

(* Any environment, lifecycle calls one after the other, one request *)

InitLifecycle == \E e \in Envs : InitWith(e)

NextLifecycle ==
    \/ on_startup
    \/ InitPoolCall
    \/ on_shutdown(1)
    \/ ClosePoolCall(1)
    \/ ClosePoolReturn(1)
    \/ \E fn \in Functions : SearchCall(1, fn, <<"a">>, NoDate)
    \/ RequestSteps(1)

SpecLifecycle == InitLifecycle /\ [][NextLifecycle]_vars

(* More requests than connections, between startup and shutdown.  The two  *)
(* handlers use the pool alike; the requests here are /author requests.     *)

NextPool ==
    \/ on_startup
    \/ on_shutdown(1)
    \/ ClosePoolReturn(1)
    \/ \E r \in Requests : SearchCall(r, "search_author", <<"a">>, NoDate)
    \/ \E r \in Requests : RequestSteps(r)

SpecPool == Init /\ [][NextPool]_vars

(* _make_like_pattern on every search term up to MaxLen characters *)

InitPattern ==
    /\ env = FullEnv
    /\ appState = "starting"
    /\ pool = None
    /\ pools = <<>>
    /\ closer = [c \in Closers |-> [pc |-> "idle", target |-> None, last |-> "none"]]
    /\ req = [r \in Requests |-> IdleReq]
    /\ initTick = FALSE
    /\ initResult = "none"
    /\ envRead = FALSE
    /\ value \in Strings(MaxLen)
    /\ mainOut = NotApplied
    /\ dbOut = NotApplied

ApplyMain ==
    /\ mainOut = NotApplied
    /\ mainOut' = main_make_like_pattern(value)
    /\ UNCHANGED <<lifecycleVars, req, value, dbOut>>

ApplyDb ==
    /\ dbOut = NotApplied
    /\ dbOut' = db_make_like_pattern(value)
    /\ UNCHANGED <<lifecycleVars, req, value, mainOut>>

NextPattern == ApplyMain \/ ApplyDb

SpecPattern == InitPattern /\ [][NextPattern]_vars

----------------------------------------------------------------------------
(* What the specification says of a search pattern, stated without strip():  *)
(* the trimmed term is the part of t between a leading and a trailing run of *)
(* whitespace that neither begins nor ends with whitespace.                  *)

Trims(t) ==
    {SubSeq(t, ij[1], ij[2]) :
        ij \in {x \in (1..Len(t) + 1) \X (0..Len(t)) :
                  /\ x[1] <= x[2] + 1
                  /\ \A k \in 1..(x[1] - 1) : t[k] \in Whitespace
                  /\ \A k \in (x[2] + 1)..Len(t) : t[k] \in Whitespace
                  /\ x[1] <= x[2] => (t[x[1]] \notin Whitespace /\ t[x[2]] \notin Whitespace)}}

ExpectedPattern(t) ==
    LET s == CHOOSE x \in Trims(t) : TRUE
    IN  IF s = <<>> THEN <<>> ELSE <<"%">> \o s \o <<"%">>

(* C4: for every search term t, each copy of _make_like_pattern returns the *)
(* empty string when t trimmed of surrounding whitespace is empty, and       *)
(* otherwise "%" + trimmed t + "%"; the copy in main.py and the copy in      *)
(* db.py agree on every t.                                                   *)
C4_PatternTrimmedAndWrapped ==
    /\ Cardinality(Trims(value)) = 1
    /\ mainOut # NotApplied => mainOut = ExpectedPattern(value)
    /\ dbOut # NotApplied => dbOut = ExpectedPattern(value)
    /\ (mainOut # NotApplied /\ dbOut # NotApplied) => mainOut = dbOut

\* a term with whitespace on both sides, wrapped by both copies
C4_Witness ==
    /\ value = <<" ", "a", "\t">>
    /\ mainOut = <<"%", "a", "%">>
    /\ dbOut = <<"%", "a", "%">>

(* C3: every request that reaches the query step issues exactly one database *)
(* call: the query text is the fixed text of its endpoint's function with    *)
(* one placeholder when publish_by_date is None and two when it is given;    *)
(* the bound parameters are (pattern) or (pattern, publish_by_date) with     *)
(* publish_by_date exactly as received; a request that does not reach the    *)
(* query step issues none.                                                   *)
C3_OneBoundCall ==
    \A r \in Requests :
        LET q == req[r] IN
        /\ Len(q.calls) <= 1
        /\ q.pc \in {"idle", "acquire", "execute"} => q.calls = <<>>
        /\ q.result \in {"RuntimeError", "PoolError", "CursorError"} => q.calls = <<>>
        /\ (q.pc = "fetchall" \/ q.result \in {"rows", "HTTPException"}) =>
             /\ Len(q.calls) = 1
             /\ q.calls[1].query =
                  (IF q.fn = "search_author"
                   THEN (IF q.date.isNone THEN "SELECT * FROM search_author(%s);"
                                          ELSE "SELECT * FROM search_author(%s, %s);")
                   ELSE (IF q.date.isNone THEN "SELECT * FROM search_books(%s);"
                                          ELSE "SELECT * FROM search_books(%s, %s);"))
             /\ q.calls[1].params =
                  (IF q.date.isNone THEN <<ExpectedPattern(q.term)>>
                                    ELSE <<ExpectedPattern(q.term), q.date.str>>)

\* a finished /books request whose date filter begins with a space: the
\* two-argument call carries the pattern and the date filter as received
C3_Witness ==
    /\ req[1].pc = "done"
    /\ req[1].result = "rows"
    /\ req[1].fn = "search_books"
    /\ req[1].date = SomeDate(<<" ", "a">>)
    /\ req[1].calls = <<[query  |-> "SELECT * FROM search_books(%s, %s);",
                         params |-> <<(<<"%", "a", "%">>), (<<" ", "a">>)>>]>>

(* C2: every request that ends on a database error (acquiring the           *)
(* connection, opening the cursor, execute, fetchall) ends with the uniform  *)
(* HTTP 500 error whose body is the fixed message, carries no text of the    *)
(* underlying exception and returns no rows; no other exception leaves the   *)
(* handler.  (The not-initialized error of get_connection is left out of    *)
(* the errors counted here.)                                                 *)
C2_EveryDbErrorConverted ==
    \A r \in Requests :
        (req[r].pc = "done" /\ req[r].result \in {"PoolError", "CursorError", "HTTPException"}) =>
            /\ req[r].result = "HTTPException"
            /\ req[r].detail = Detail(req[r].fn)
            /\ req[r].detail # DbErrorText

(* C5: get_connection called while db.pool is None raises the               *)
(* not-initialized error: the request ends at once with that error, holds    *)
(* no connection, has issued no query, and the pool state is unchanged.      *)
C5_UninitializedFails ==
    [][\A r \in Requests :
         /\ (req[r].pc = "idle" /\ req'[r].pc # "idle" /\ pool = None) =>
               /\ req'[r].pc = "done"
               /\ req'[r].result = "RuntimeError"
               /\ req'[r].conn = NoConn
               /\ req'[r].acquired = 0
               /\ req'[r].calls = <<>>
               /\ pool' = pool
               /\ pools' = pools
         /\ req'[r].result = "RuntimeError" => (req'[r].acquired = 0 /\ req'[r].calls = <<>>)
      ]_vars

\* a request that failed for want of a pool, every pool object made so far
\* having been closed
C5_Witness ==
    /\ req[1].result = "RuntimeError"
    /\ pool = None
    /\ pools # <<>>
    /\ \A p \in 1..Len(pools) : pools[p].closed

RequiredNames == {"DB_NAME", "DB_USER", "DB_PASSWORD"}

(* C6: when DB_NAME, DB_USER or DB_PASSWORD is absent, init_pool fails with  *)
(* the configuration error, no pool object is ever created, db.pool stays    *)
(* None, the application never serves and no request gets a connection; when *)
(* the three are set, DB_HOST or DB_PORT being absent causes no failure and  *)
(* the defaults localhost and 5432 are used.                                 *)
C6_MissingConfigIsFatal ==
    /\ (\E n \in RequiredNames : env[n] = Unset) =>
          /\ pool = None
          /\ pools = <<>>
          /\ appState \in {"starting", "failed"}
          /\ initResult \in {"none", "ConfigError"}
          /\ \A r \in Requests : req[r].acquired = 0 /\ req[r].calls = <<>>
    /\ (\A n \in RequiredNames : Truthy(env[n])) =>
          /\ initResult # "ConfigError"
          /\ appState # "failed"
          /\ \A p \in 1..Len(pools) :
                /\ env["DB_HOST"] = Unset => pools[p].dsn.host = "localhost"
                /\ env["DB_PORT"] = Unset => pools[p].dsn.port = "5432"

\* startup has failed on an environment without DB_PASSWORD
C6_Witness ==
    /\ env["DB_PASSWORD"] = Unset
    /\ env["DB_NAME"] = "v"
    /\ env["DB_USER"] = "v"
    /\ initResult = "ConfigError"
    /\ appState = "failed"

(* C8: an init_pool call made while db.pool is set is a no-op: it does not   *)
(* read the environment and leaves db.pool and every pool object as they     *)
(* are; a pool object is created only while db.pool is None, one at a time,  *)
(* and becomes db.pool: between two close_pool calls at most one is created. *)
C8_InitIdempotent ==
    [][/\ (initTick' # initTick /\ pool # None) =>
            /\ initResult' = "noop"
            /\ ~envRead'
            /\ pool' = pool
            /\ pools' = pools
       /\ Len(pools') # Len(pools) =>
            /\ pool = None
            /\ Len(pools') = Len(pools) + 1
            /\ pool' = Len(pools')
            /\ SubSeq(pools', 1, Len(pools)) = pools
      ]_vars

\* the last init_pool call found the pool initialized
C8_Witness ==
    /\ initResult = "noop"
    /\ pool # None
    /\ Len(pools) = 1

(* C9: with close_pool calls made one after the other: a call that finds     *)
(* db.pool None does nothing and raises nothing; a call that finds a pool    *)
(* closes that pool object and leaves db.pool None when it completes; no     *)
(* pool object has close() called on it twice, and every pool object that is *)
(* no longer db.pool has been closed.                                        *)
C9_CloseIdempotent ==
    [][\A c \in Closers :
         /\ (closer[c].pc = "idle" /\ pool = None /\ closer'[c] # closer[c]) =>
               /\ closer'[c] = [closer[c] EXCEPT !.last = "noop"]
               /\ pool' = None
               /\ pools' = pools
         /\ (closer[c].pc = "closing" /\ closer'[c].pc = "idle") =>
               /\ pool' = None
               /\ closer'[c].last = "closed"
               /\ pools'[closer[c].target].closed
         /\ \A p \in 1..Len(pools') :
               /\ pools'[p].closeCalls <= 1
               /\ (p # pool' => pools'[p].closed)
      ]_vars

\* a second close_pool after a completed one: it found no pool
C9_Witness ==
    /\ closer[1].last = "noop"
    /\ closer[1].pc = "idle"
    /\ pool = None
    /\ pools # <<>>

(* C10: under any interleaving, once close_pool has started closing a pool   *)
(* object no get_connection call begins acquiring from that object, and no   *)
(* pool object has close() called on it more than once.                      *)
C10_NoUseAfterCloseStarted ==
    [][/\ \A r \in Requests :
            (req[r].pc = "idle" /\ req'[r].pc = "acquire") =>
                ~pools[req'[r].target].closed
       /\ \A p \in 1..Len(pools') : pools'[p].closeCalls <= 1
      ]_vars

(* C1: a request that obtains a connection returns it exactly once before it *)
(* ends, whether the query succeeds or execute / fetchall raises; once every *)
(* request has ended no connection is checked out.                           *)
C1_ReleasedExactlyOnce ==
    /\ \A r \in Requests :
          /\ req[r].acquired \in {0, 1}
          /\ req[r].released <= req[r].acquired
          /\ (req[r].conn # NoConn) <=> (req[r].acquired = 1 /\ req[r].released = 0)
          /\ req[r].pc = "done" => req[r].released = req[r].acquired
          /\ (req[r].pc = "done" /\ req[r].result \in {"rows", "HTTPException", "CursorError"})
                => req[r].released = 1
    /\ (\A r \in Requests : req[r].pc \in {"idle", "done"}) =>
          \A p \in 1..Len(pools) : CheckedOut(p) = {}

\* every request has ended, one with rows and one on a failed query, each
\* having returned its connection
C1_Witness ==
    /\ \A r \in Requests : req[r].pc = "done" /\ req[r].released = 1
    /\ \E r \in Requests : req[r].result = "rows" /\ req[r].released = 1
    /\ \E r \in Requests : req[r].result = "HTTPException" /\ req[r].released = 1

====
